---- MODULE Spec2Model ----
(***************************************************************************)
(* Model of the Cyan DHL tracker: the Odoo ledger client, the DHL carrier  *)
(* status resolver, and the AutomatedTracker reconciliation cycles         *)
(* (src/automated_tracker.py), with the resolver variants of                *)
(* src/shiptracker.py and src/track_shipments.py.                          *)
(***************************************************************************)
EXTENDS Integers, Sequences, FiniteSets, TLC

VARIABLES
    pickings,                    \* the Ledger: Odoo stock.picking records, in query order
    last_delivered_shipments,    \* AutomatedTracker.last_delivered_shipments (DeliveredSet)
    last_check_results,          \* AutomatedTracker.last_check_results (dict)
    pc,                          \* position of the single thread of control
    exited,                      \* "no" while the process runs, else what ended it
    shipments,                   \* hourly_detailed_check: candidates fetched for the cycle
    idx,                         \* hourly_detailed_check: position of the for loop (1-based)
    in_transit_shipments,        \* hourly_detailed_check local list
    newly_delivered_shipments,   \* hourly_detailed_check local list
    shipments_with_next_steps,   \* hourly_detailed_check local list
    response,                    \* what the carrier's HTTP endpoint answers to the current lookup
    tracking_data,               \* get_shipment_status local: result of track_shipment
    observation,                 \* (status_description, next_steps, is_delivered) or a raised error
    webhook_data,                \* the summary data handed to send_webhook by the last detailed cycle
    message,                     \* the lines of the text format_mattermost_message made of it
    events,                      \* history: external calls made by the running cycle, in order
    cycles,                      \* history: number of cycles started by the scheduler
    simple_last,                 \* history: what the last simple_check read and did
    light_reading,               \* history: count read by the last simple_check that read one
    resolved_before,             \* history: ids the carrier resolved delivered in earlier cycles
    resolved_now,                \* history: ids the carrier resolved delivered in this cycle
    cycle,                       \* history: kind and outcome of the running or last cycle
    delivered_applied,           \* history: per id, delivered=True writes the Ledger applied
    newly_listed,                \* history: per id, cycles that listed it as newly delivered
    connected,                   \* history: what connect() returned when the last cycle began
    baseline,                    \* history: ids the Ledger returned to load_delivered_shipments
    due_simple,                  \* schedule: 10-minute marks passed since simple_check was last run
    due_detailed,                \* schedule: hour marks passed since the hourly job was last run
    ran_simple,                  \* history: runs of simple_check since its last 10-minute mark
    ran_detailed                 \* history: runs of the hourly job since its last hour mark

vars == <<pickings, last_delivered_shipments, last_check_results, pc, exited, shipments, idx,
          in_transit_shipments, newly_delivered_shipments, shipments_with_next_steps,
          response, tracking_data, observation, webhook_data, message, events, cycles,
          simple_last, light_reading, resolved_before, resolved_now, cycle,
          delivered_applied, newly_listed, connected, baseline,
          due_simple, due_detailed, ran_simple, ran_detailed>>

(***************************************************************************)
(* Python values.  A str is the sequence of its characters; None is a      *)
(* one-element tuple that is no str (its element is not one character).    *)
(* A dict is a function from its keys; .get(k, d) is Get.                  *)
(***************************************************************************)
None == <<"NoneType">>

IsStr(v) == v # None

EmptyDict == [k \in {} |-> None]

Get(d, k, default) == IF k \in DOMAIN d THEN d[k] ELSE default

UpperChars == <<"A", "B", "C", "D", "E", "F", "G", "H", "I", "J", "K", "L", "M",
                "N", "O", "P", "Q", "R", "S", "T", "U", "V", "W", "X", "Y", "Z">>

LowerChars == <<"a", "b", "c", "d", "e", "f", "g", "h", "i", "j", "k", "l", "m",
                "n", "o", "p", "q", "r", "s", "t", "u", "v", "w", "x", "y", "z">>

LowerChar(c) ==
    IF \E i \in DOMAIN UpperChars : UpperChars[i] = c
    THEN LowerChars[CHOOSE i \in DOMAIN UpperChars : UpperChars[i] = c]
    ELSE c

\* str.lower()
Lower(s) == [i \in DOMAIN s |-> LowerChar(s[i])]

\* sub in s
Contains(s, sub) ==
    \E i \in 1..(Len(s) - Len(sub) + 1) : SubSeq(s, i, i + Len(sub) - 1) = sub

DigitChars == <<"0", "1", "2", "3", "4", "5", "6", "7", "8", "9">>

RECURSIVE IntToStr(_)
\* str(n) for n >= 0
IntToStr(n) ==
    IF n < 10 THEN <<DigitChars[n + 1]>>
    ELSE IntToStr(n \div 10) \o <<DigitChars[(n % 10) + 1]>>

\* bool(v) for a str or None
Truthy(v) == v # None /\ v # <<>>

(***************************************************************************)
(* String literals of the source.                                          *)
(***************************************************************************)
STR_delivered == <<"d", "e", "l", "i", "v", "e", "r", "e", "d">>
STR_ok == <<"o", "k">>
STR_Unknown == <<"U", "n", "k", "n", "o", "w", "n">>
STR_No_data == <<"N", "o", " ", "d", "a", "t", "a">>
STR_Not_Found == <<"N", "o", "t", " ", "F", "o", "u", "n", "d">>
STR_Auth_Error == <<"A", "u", "t", "h", " ", "E", "r", "r", "o", "r">>
STR_Rate_Limited == <<"R", "a", "t", "e", " ", "L", "i", "m", "i", "t", "e", "d">>
STR_Error_ == <<"E", "r", "r", "o", "r", " ">>
STR_None == <<"N", "o", "n", "e">>
STR_Status_ == <<"S", "t", "a", "t", "u", "s", ":", " ">>
STR_Next_Steps_ == <<"N", "e", "x", "t", " ", "S", "t", "e", "p", "s", ":", " ">>
STR_newline == <<"\n">>

(***************************************************************************)
(* DHLTracker.track_shipment.  `resp` is what requests.get does for the    *)
(* lookup: it raises (exc), or returns a response with a status code and,  *)
(* for 200, a body that parses as JSON (json_ok) to `body`.                *)
(***************************************************************************)
Raised(name) == [raised |-> TRUE, exc |-> name, value |-> EmptyDict]

Returned(v) == [raised |-> FALSE, exc |-> "", value |-> v]

ErrorWithCode(code) == [error |-> TRUE, status_code |-> code, message |-> <<>>]

ErrorNoCode == [error |-> TRUE, message |-> <<>>]

\* src/automated_tracker.py: the whole request is inside try/except Exception
track_shipment(resp) ==
    IF resp.exc THEN Returned(ErrorNoCode)
    ELSE IF resp.status_code = 200
         THEN IF resp.json_ok THEN Returned(resp.body) ELSE Returned(ErrorNoCode)
         ELSE Returned(ErrorWithCode(resp.status_code))

\* src/shiptracker.py and src/track_shipments.py: no try/except around the request
track_shipment_unguarded(resp) ==
    IF resp.exc THEN Raised("RequestException")
    ELSE IF resp.status_code = 200
         THEN IF resp.json_ok THEN Returned(resp.body) ELSE Raised("JSONDecodeError")
         ELSE Returned(ErrorWithCode(resp.status_code))

(***************************************************************************)
(* DHLTracker.get_shipment_status, from the tracking data on.              *)
(***************************************************************************)
Obs(description, next_steps, is_delivered) ==
    [raised |-> FALSE, exc |-> "", description |-> description,
     next_steps |-> next_steps, is_delivered |-> is_delivered]

ObsRaised(name) ==
    [raised |-> TRUE, exc |-> name, description |-> None,
     next_steps |-> None, is_delivered |-> FALSE]

NoObs == ObsRaised("")

\* tracking_data.get("error")
HasError(td) == "error" \in DOMAIN td /\ td["error"] = TRUE

\* the 429 branch left out
error_status_no_429(td) ==
    IF "status_code" \in DOMAIN td
    THEN IF td["status_code"] = 404 THEN Obs(STR_Not_Found, None, FALSE)
         ELSE IF td["status_code"] = 401 THEN Obs(STR_Auth_Error, None, FALSE)
         ELSE Obs(STR_Error_ \o IntToStr(td["status_code"]), None, FALSE)
    ELSE Obs(STR_Error_ \o STR_None, None, FALSE)

\* the branch taken when tracking_data.get("error") is true
error_status(td) ==
    IF "status_code" \in DOMAIN td
    THEN IF td["status_code"] = 404 THEN Obs(STR_Not_Found, None, FALSE)
         ELSE IF td["status_code"] = 401 THEN Obs(STR_Auth_Error, None, FALSE)
         ELSE IF td["status_code"] = 429 THEN Obs(STR_Rate_Limited, None, FALSE)
         ELSE Obs(STR_Error_ \o IntToStr(td["status_code"]), None, FALSE)
    ELSE Obs(STR_Error_ \o STR_None, None, FALSE)

\* "shipments" in tracking_data and tracking_data["shipments"], then "status" in shipment
HasStatusRecord(td) ==
    /\ "shipments" \in DOMAIN td
    /\ td["shipments"] # <<>>
    /\ "status" \in DOMAIN td["shipments"][1]

\* description = status_info.get("description", status_info.get("status", "Unknown"))
description_of(status_info) ==
    Get(status_info, "description", Get(status_info, "status", STR_Unknown))

\* the description compared without .lower()
delivered_test_case_sensitive(description, status_code) ==
    \/ Contains(description, STR_delivered)
    \/ status_code \in {STR_delivered, STR_ok}

\* "delivered" in description.lower() or status_code in ["delivered", "ok"]
delivered_test(description, status_code) ==
    \/ Contains(Lower(description), STR_delivered)
    \/ status_code \in {STR_delivered, STR_ok}

\* nextSteps taken from the record whether delivered or not
status_record_keeps_next_steps(status_info) ==
    LET description == description_of(status_info)
        raw_code    == Get(status_info, "statusCode", <<>>)
    IN  IF ~IsStr(raw_code) \/ ~IsStr(description)
        THEN ObsRaised("AttributeError")
        ELSE Obs(description, Get(status_info, "nextSteps", None),
                 delivered_test(description, Lower(raw_code)))

\* the branch taken for a status record; .lower() on None raises AttributeError
status_record(status_info) ==
    LET description == description_of(status_info)
        raw_code    == Get(status_info, "statusCode", <<>>)
    IN  IF ~IsStr(raw_code) \/ ~IsStr(description)
        THEN ObsRaised("AttributeError")
        ELSE LET status_code  == Lower(raw_code)
                 is_delivered == delivered_test(description, status_code)
                 next_steps   == IF is_delivered THEN None
                                 ELSE Get(status_info, "nextSteps", None)
             IN  Obs(description, next_steps, is_delivered)

status_of(td) ==
    IF HasError(td) THEN error_status(td)
    ELSE IF HasStatusRecord(td) THEN status_record(td["shipments"][1]["status"])
    ELSE Obs(STR_No_data, None, FALSE)

\* src/automated_tracker.py DHLTracker.get_shipment_status
get_shipment_status(resp) ==
    LET t == track_shipment(resp)
    IN  IF t.raised THEN ObsRaised(t.exc) ELSE status_of(t.value)

\* src/shiptracker.py DHLTracker.get_shipment_status
shiptracker_get_shipment_status(resp) ==
    LET t == track_shipment_unguarded(resp)
    IN  IF t.raised THEN ObsRaised(t.exc) ELSE status_of(t.value)

\* src/track_shipments.py is_shipment_delivered, on the tracking data
is_shipment_delivered(td) ==
    IF HasError(td) THEN Obs(None, None, FALSE)
    ELSE IF HasStatusRecord(td)
         THEN LET status_info == td["shipments"][1]["status"]
                  raw_desc    == description_of(status_info)
                  raw_code    == Get(status_info, "statusCode", <<>>)
              IN  IF ~IsStr(raw_desc) \/ ~IsStr(raw_code)
                  THEN ObsRaised("AttributeError")
                  ELSE Obs(None, None,
                           \/ Contains(Lower(raw_desc), STR_delivered)
                           \/ Lower(raw_code) \in {STR_delivered, STR_ok})
         ELSE Obs(None, None, FALSE)

(***************************************************************************)
(* Bounds and inputs of the model.                                         *)
(***************************************************************************)
MaxPickings == 2

MaxCycles == 3

TrackingIds == {"T1", "T2"}

STR_Delivered_cap == <<"D", "e", "l", "i", "v", "e", "r", "e", "d">>
STR_DELIVERED == <<"D", "E", "L", "I", "V", "E", "R", "E", "D">>
STR_Shipment_delivered == <<"S", "h", "i", "p", "m", "e", "n", "t", " ", "d", "e", "l", "i", "v", "e", "r", "e", "d">>
STR_Undelivered == <<"U", "n", "d", "e", "l", "i", "v", "e", "r", "e", "d">>
STR_In_transit == <<"I", "n", " ", "t", "r", "a", "n", "s", "i", "t">>
STR_Delivery_attempted == <<"D", "e", "l", "i", "v", "e", "r", "y", " ", "a", "t", "t", "e", "m", "p", "t", "e", "d">>
STR_transit == <<"t", "r", "a", "n", "s", "i", "t">>
STR_OK == <<"O", "K">>
STR_Ok == <<"O", "k">>
STR_okay == <<"o", "k", "a", "y">>
STR_pre_transit == <<"p", "r", "e", "-", "t", "r", "a", "n", "s", "i", "t">>
STR_Await_customs == <<"A", "w", "a", "i", "t", " ", "c", "u", "s", "t", "o", "m", "s", " ", "c", "l", "e", "a", "r", "a", "n", "c", "e">>

\* marks a key that the carrier's JSON leaves out
Missing == <<"KeyMissing">>

\* a status dict with the given values, without the keys marked Missing
StatusInfo(description, status, statusCode, nextSteps) ==
    LET all == [description |-> description, status |-> status,
                statusCode |-> statusCode, nextSteps |-> nextSteps]
    IN  [k \in {f \in DOMAIN all : all[f] # Missing} |-> all[k]]

Descriptions == {Missing, None, <<>>, STR_Delivered_cap, STR_DELIVERED,
                 STR_Shipment_delivered, STR_Undelivered, STR_In_transit,
                 STR_Delivery_attempted}

CoarseStatuses == {Missing, STR_delivered, STR_transit}

StatusCodes == {Missing, None, <<>>, STR_delivered, STR_DELIVERED, STR_ok, STR_OK,
                STR_Ok, STR_okay, STR_transit, STR_pre_transit}

NextSteps == {Missing, None, <<>>, STR_Await_customs}

StatusInfos ==
    {StatusInfo(d, s, c, n) : d \in Descriptions, s \in CoarseStatuses,
                              c \in StatusCodes, n \in NextSteps}

HttpOk(body) == [exc |-> FALSE, status_code |-> 200, json_ok |-> TRUE, body |-> body]

HttpFailure(code) == [exc |-> FALSE, status_code |-> code, json_ok |-> TRUE, body |-> EmptyDict]

RequestRaises == [exc |-> TRUE, status_code |-> 0, json_ok |-> FALSE, body |-> EmptyDict]

BadJson == [exc |-> FALSE, status_code |-> 200, json_ok |-> FALSE, body |-> EmptyDict]

FailureCodes == {400, 401, 403, 404, 429, 500, 503}

WithStatus(status_info) == HttpOk([shipments |-> <<[status |-> status_info]>>])

\* every answer of the carrier the resolver is applied to
CarrierResponses ==
    {HttpFailure(c) : c \in FailureCodes}
    \cup {RequestRaises, BadJson}
    \cup {HttpOk(EmptyDict), HttpOk([shipments |-> <<>>]),
          HttpOk([shipments |-> <<[id |-> <<"1">>]>>])}
    \cup {WithStatus(si) : si \in StatusInfos}

\* the answers of a lookup that fails or finds no data
FailedLookups ==
    {HttpFailure(c) : c \in FailureCodes}
    \cup {RequestRaises, BadJson,
          HttpOk(EmptyDict),
          HttpOk([shipments |-> <<>>]),
          HttpOk([shipments |-> <<[id |-> <<"1">>]>>])}

\* the answers a detailed cycle is run against
CycleResponses ==
    {HttpFailure(404),
     WithStatus(StatusInfo(STR_Delivered_cap, Missing, STR_delivered, STR_Await_customs)),
     WithStatus(StatusInfo(STR_In_transit, Missing, STR_transit, STR_Await_customs)),
     WithStatus(StatusInfo(None, Missing, STR_transit, Missing))}

(***************************************************************************)
(* OdooClient: the Ledger.  A picking is [ref, delivered, last_status]:    *)
(* carrier_tracking_ref, x_studio_delivered_ and x_studio_last_status of a *)
(* done DHL picking inside the 90-day window.                              *)
(***************************************************************************)
RecentLimit == 100

Picking(ref, delivered) == [ref |-> ref, delivered |-> delivered, last_status |-> <<>>]

RECURSIVE SeqsUpTo(_, _)
\* the sequences over S of length at most n
SeqsUpTo(S, n) ==
    IF n = 0 THEN {<<>>}
    ELSE LET shorter == SeqsUpTo(S, n - 1)
         IN  shorter \cup {Append(q, x) : q \in shorter, x \in S}

Ledgers ==
    SeqsUpTo({Picking(r, d) : r \in TrackingIds, d \in BOOLEAN}, MaxPickings)

IsOpen(p) == ~p.delivered

Head_n(q, n) == SubSeq(q, 1, IF Len(q) < n THEN Len(q) ELSE n)

\* get_recent_shipments: the undelivered pickings, in ledger order, at most `limit`;
\* a failing query is caught and gives []
get_recent_shipments(ledger, query_ok) ==
    IF ~query_ok THEN <<>>
    ELSE LET found == Head_n(SelectSeq(ledger, IsOpen), RecentLimit)
         IN  [i \in DOMAIN found |-> [tracking_number |-> found[i].ref]]

\* a status text that leaves the next steps out
status_text_without_next_steps(current_status, next_steps) == STR_Status_ \o current_status


\* status_lines joined with "\n"
status_text_of(current_status, next_steps) ==
    LET line1 == IF Truthy(current_status) THEN <<STR_Status_ \o current_status>> ELSE <<>>
        line2 == IF Truthy(next_steps) THEN <<STR_Next_Steps_ \o next_steps>> ELSE <<>>
        status_lines == line1 \o line2
    IN  IF Len(status_lines) = 0 THEN <<>>
        ELSE IF Len(status_lines) = 1 THEN status_lines[1]
        ELSE status_lines[1] \o STR_newline \o status_lines[2]

\* the pickings the search of update_delivery_status finds
picking_ids(ledger, tracking_number) ==
    {i \in DOMAIN ledger : ledger[i].ref = tracking_number}

\* update_delivery_status returns a true value: the write was applied
update_applied(ledger, tracking_number, rpc_ok) ==
    rpc_ok /\ picking_ids(ledger, tracking_number) # {}

\* update_delivery_status: the Ledger after the call; an RPC fault is caught
update_delivery_status(ledger, tracking_number, delivered, current_status, next_steps, rpc_ok) ==
    IF ~update_applied(ledger, tracking_number, rpc_ok) THEN ledger
    ELSE [i \in DOMAIN ledger |->
            IF i \notin picking_ids(ledger, tracking_number) THEN ledger[i]
            ELSE IF delivered
                 THEN [ledger[i] EXCEPT !.delivered = TRUE, !.last_status = <<>>]
                 ELSE [ledger[i] EXCEPT
                         !.last_status = status_text_of(current_status, next_steps)]]

(***************************************************************************)
(* AutomatedTracker: the points of the code the cycles are built from.     *)
(***************************************************************************)
\* the cycle going on whatever connect() returned
connect_failed_ignored(connect_ok) == FALSE

\* if not self.odoo_client.connect(): return
connect_failed(connect_ok) == ~connect_ok


\* the membership test left out: every candidate is tracked again
already_delivered_never(tracking_number, delivered_set) == FALSE

\* if tracking_number in self.last_delivered_shipments
already_delivered(tracking_number, delivered_set) == tracking_number \in delivered_set

\* the set assigned instead of added to
mark_delivered_replace(delivered_set, tracking_number) == {tracking_number}

\* the add left out
mark_delivered_forgotten(delivered_set, tracking_number) == delivered_set

\* self.last_delivered_shipments.add(tracking_number)
mark_delivered(delivered_set, tracking_number) == delivered_set \cup {tracking_number}

\* the carrier_tracking_ref of the pickings the search_read of load_delivered_shipments returns
delivered_refs(ledger) == {ledger[i].ref : i \in {j \in DOMAIN ledger : ledger[j].delivered}}

\* a baseline load that adds nothing to the set
seed_delivered_nothing(delivered_set, ledger) == delivered_set


\* the for loop of load_delivered_shipments over the delivered pickings
seed_delivered(delivered_set, ledger) == delivered_set \cup delivered_refs(ledger)

\* a process that takes "never counted" for a count of its own, not for 0
last_count_unset_differs(results) == Get(results, "shipment_count", -1)


\* self.last_check_results.get('shipment_count', 0)
last_count(results) == Get(results, "shipment_count", 0)

\* if current_count != last_count
count_changed(current_count, previous_count) == current_count # previous_count

\* setdefault instead of assignment: only the first count is ever stored
store_shipment_count_setdefault(results, current_count) ==
    IF "shipment_count" \in DOMAIN results THEN results
    ELSE [k \in DOMAIN results \cup {"shipment_count"} |->
            IF k = "shipment_count" THEN current_count ELSE results[k]]

\* self.last_check_results['shipment_count'] = current_count
store_shipment_count(results, current_count) ==
    [k \in DOMAIN results \cup {"shipment_count"} |->
        IF k = "shipment_count" THEN current_count ELSE results[k]]

\* the detailed cycle storing the count it saw in the counter of the simple cycle
results_after_detailed_stores(results, candidates) ==
    [k \in DOMAIN results \cup {"shipment_count"} |->
        IF k = "shipment_count" THEN Len(candidates) ELSE results[k]]

\* last_check_results across hourly_detailed_check, which never assigns it
results_after_detailed(results, candidates) == results

\* the delivered branch taken for every candidate
delivered_branch_always(obs) == TRUE

\* if is_delivered: (else: the in-transit branch)
delivered_branch(obs) == obs.is_delivered

\* a list that takes its new entry in front
list_prepend(list, entry) == <<entry>> \o list

\* in_transit_shipments.append(shipment_data)
list_append(list, entry) == Append(list, entry)

\* a cycle that goes on without candidates
no_shipments_ignored(found) == FALSE

\* if not shipments: return
no_shipments(found) == found = <<>>


\* shipment_data of the candidate being processed
shipment_data_of(tracking_number, obs) ==
    [tracking_number |-> tracking_number, status |-> obs.description,
     next_steps |-> obs.next_steps, is_delivered |-> obs.is_delivered]

\* every in-transit shipment appended, with or without next steps
with_next_steps_always(attention, shipment_data) == Append(attention, shipment_data)

\* if next_steps: shipments_with_next_steps.append(shipment_data)
with_next_steps(attention, shipment_data) ==
    IF Truthy(shipment_data.next_steps) THEN Append(attention, shipment_data) ELSE attention

\* webhook_data whose total counts only the candidates put in a list
summary_data_listed_only(candidates, in_transit, newly_delivered) ==
    [kind |-> "summary",
     summary |-> [total_shipments |-> Len(in_transit) + Len(newly_delivered),
                  in_transit |-> Len(in_transit),
                  newly_delivered |-> Len(newly_delivered)],
     in_transit_shipments |-> in_transit,
     newly_delivered_shipments |-> newly_delivered]

\* webhook_data of hourly_detailed_check
summary_data(candidates, in_transit, newly_delivered) ==
    [kind |-> "summary",
     summary |-> [total_shipments |-> Len(candidates),
                  in_transit |-> Len(in_transit),
                  newly_delivered |-> Len(newly_delivered)],
     in_transit_shipments |-> in_transit,
     newly_delivered_shipments |-> newly_delivered]

NoWebhook ==
    [kind |-> "none",
     summary |-> [total_shipments |-> 0, in_transit |-> 0, newly_delivered |-> 0],
     in_transit_shipments |-> <<>>,
     newly_delivered_shipments |-> <<>>]

(***************************************************************************)
(* WebhookSender.format_mattermost_message: the text, line by line.  A     *)
(* line is kept as what it says: its kind, the shipment it is about, the   *)
(* text it quotes and the number it states.                                *)
(***************************************************************************)
DisplayCap == 10

Line(kind, id, text, count) == [kind |-> kind, id |-> id, text |-> text, count |-> count]

\* in_transit[:10]
displayed(in_transit) == Head_n(in_transit, DisplayCap)

\* the lines of one in-transit shipment: the shipment, its status, its next steps if any
in_transit_lines(shipment) ==
    <<Line("shipment", shipment.tracking_number, <<>>, 0),
      Line("status", shipment.tracking_number, shipment.status, 0)>>
    \o (IF Truthy(shipment.next_steps)
        THEN <<Line("next_steps", shipment.tracking_number, shipment.next_steps, 0)>>
        ELSE <<>>)

RECURSIVE lines_of(_)
lines_of(list) ==
    IF list = <<>> THEN <<>> ELSE in_transit_lines(Head(list)) \o lines_of(Tail(list))

\* a remainder line added whenever the list is not empty
remainder_line_always(in_transit) ==
    <<Line("more", "", <<>>, Len(in_transit) - DisplayCap)>>

\* if len(in_transit) > 10: "... and {len(in_transit) - 10} more shipments"
remainder_line(in_transit) ==
    IF Len(in_transit) > DisplayCap
    THEN <<Line("more", "", <<>>, Len(in_transit) - DisplayCap)>>
    ELSE <<>>

format_mattermost_message(data, is_startup) ==
    LET summary == data.summary
        newly_delivered == data.newly_delivered_shipments
        in_transit == data.in_transit_shipments
    IN  <<Line(IF is_startup THEN "title_started" ELSE "title_update", "", <<>>, 0),
          Line("total", "", <<>>, summary.total_shipments),
          Line("in_transit", "", <<>>, summary.in_transit),
          Line("newly_delivered", "", <<>>, summary.newly_delivered)>>
        \o (IF newly_delivered # <<>>
            THEN <<Line("newly_delivered_header", "", <<>>, 0)>>
                 \o [i \in DOMAIN newly_delivered |->
                        Line("delivered", newly_delivered[i].tracking_number, <<>>, 0)]
            ELSE <<>>)
        \o (IF in_transit # <<>>
            THEN <<Line("in_transit_header", "", <<>>, 0)>>
                 \o lines_of(displayed(in_transit))
                 \o remainder_line(in_transit)
            ELSE <<>>)
        \o <<Line("last_updated", "", <<>>, 0)>>

(***************************************************************************)
(* History records.                                                        *)
(***************************************************************************)
Ev(type, id, delivered, applied, text) ==
    [type |-> type, id |-> id, delivered |-> delivered, applied |-> applied, text |-> text]

\* the nextSteps text of the carrier's status record, "" when it has none
carrier_next_steps(td) ==
    IF ~HasError(td) /\ HasStatusRecord(td)
       /\ Truthy(Get(td["shipments"][1]["status"], "nextSteps", None))
    THEN td["shipments"][1]["status"]["nextSteps"]
    ELSE <<>>

\* a carrier lookup for id, with the next steps the carrier's record carried
CallEv(id, td) == Ev("call", id, FALSE, FALSE, carrier_next_steps(td))

SkipEv(id) == Ev("skip", id, FALSE, FALSE, <<>>)

MarkEv(id) == Ev("mark", id, TRUE, FALSE, <<>>)

WriteEv(id, delivered, applied, text) == Ev("write", id, delivered, applied, text)

NotifyEv(kind) == Ev("notify", kind, FALSE, FALSE, <<>>)

NoResponse == [exc |-> FALSE, status_code |-> 0, json_ok |-> FALSE, body |-> EmptyDict]

NoCycle == [kind |-> "none", outcome |-> "none"]

\* a reading is <<n>>, the count a simple cycle read; <<>> when there is none
NoReading == <<>>

NoSimple == [count |-> NoReading, prev |-> NoReading, notified |-> FALSE]

(***************************************************************************)
(* Initial state: the tracker just constructed, in front of some Ledger.   *)
(***************************************************************************)
Fresh ==
    /\ last_delivered_shipments = {}
    /\ last_check_results = EmptyDict
    /\ shipments = <<>>
    /\ idx = 0
    /\ in_transit_shipments = <<>>
    /\ newly_delivered_shipments = <<>>
    /\ shipments_with_next_steps = <<>>
    /\ response = NoResponse
    /\ tracking_data = EmptyDict
    /\ observation = NoObs
    /\ webhook_data = NoWebhook
    /\ message = <<>>
    /\ events = <<>>
    /\ cycles = 0
    /\ simple_last = NoSimple
    /\ light_reading = NoReading
    /\ resolved_before = {}
    /\ resolved_now = {}
    /\ cycle = NoCycle
    /\ delivered_applied = [t \in TrackingIds |-> 0]
    /\ newly_listed = [t \in TrackingIds |-> 0]
    /\ connected = "none"
    /\ baseline = {}
    /\ due_simple = 0
    /\ due_detailed = 0
    /\ ran_simple = 0
    /\ ran_detailed = 0

Init ==
    /\ pickings \in Ledgers
    /\ pc = "boot"
    /\ exited = "no"
    /\ Fresh

cycle_locals == <<shipments, idx, in_transit_shipments, newly_delivered_shipments,
                  shipments_with_next_steps>>

lookup_locals == <<response, tracking_data, observation>>

histories == <<resolved_before, resolved_now, delivered_applied, newly_listed,
               connected, baseline>>

timers == <<due_simple, due_detailed, ran_simple, ran_detailed>>

simple_state == <<last_check_results, simple_last, light_reading>>

(***************************************************************************)
(* start_scheduler: baseline load, startup notification, first cycle.      *)
(***************************************************************************)
\* load_delivered_shipments: connect, read the delivered pickings, add them
load_delivered_shipments ==
    /\ exited = "no"
    /\ pc = "boot"
    /\ \E connect_ok \in BOOLEAN, query_ok \in BOOLEAN :
          /\ last_delivered_shipments' =
                 IF connect_ok /\ query_ok
                 THEN seed_delivered(last_delivered_shipments, pickings)
                 ELSE last_delivered_shipments
          /\ baseline' = IF connect_ok /\ query_ok THEN delivered_refs(pickings) ELSE {}
          /\ connected' = IF connect_ok THEN "yes" ELSE "no"
    /\ pc' = "loaded"
    /\ UNCHANGED <<pickings, exited, webhook_data, message, events, cycles, cycle>>
    /\ UNCHANGED <<resolved_before, resolved_now, delivered_applied, newly_listed>>
    /\ UNCHANGED <<cycle_locals, lookup_locals, simple_state, timers>>

\* send_startup_notification: counts only, handed to send_webhook
send_startup_notification ==
    /\ exited = "no"
    /\ pc = "loaded"
    /\ \E query_ok \in BOOLEAN :
          LET in_transit_count == Len(get_recent_shipments(pickings, query_ok))
              delivered_count  == Cardinality(last_delivered_shipments)
          IN  webhook_data' =
                  [kind |-> "startup",
                   summary |-> [total_shipments |-> in_transit_count + delivered_count,
                                in_transit |-> in_transit_count,
                                newly_delivered |-> 0],
                   in_transit_shipments |-> <<>>,
                   newly_delivered_shipments |-> <<>>]
    /\ message' = format_mattermost_message(webhook_data', TRUE)
    /\ events' = <<NotifyEv("startup")>>
    /\ pc' = "started"
    /\ UNCHANGED <<pickings, exited, last_delivered_shipments, cycles, cycle>>
    /\ UNCHANGED <<cycle_locals, lookup_locals, histories, simple_state, timers>>

(***************************************************************************)
(* hourly_detailed_check, one step per external call.                      *)
(***************************************************************************)
\* lines 497-518: connect, fetch the candidates, return early or enter the loop
hourly_begin ==
    /\ exited = "no"
    /\ pc \in {"started", "idle"}
    /\ cycles < MaxCycles
    /\ cycles' = cycles + 1
    /\ events' = <<>>
    /\ webhook_data' = NoWebhook
    /\ message' = <<>>
    /\ resolved_before' = resolved_before \cup resolved_now
    /\ resolved_now' = {}
    /\ in_transit_shipments' = <<>>
    /\ newly_delivered_shipments' = <<>>
    /\ shipments_with_next_steps' = <<>>
    /\ \E connect_ok \in BOOLEAN, query_ok \in BOOLEAN :
          /\ connected' = IF connect_ok THEN "yes" ELSE "no"
          /\ IF connect_failed(connect_ok)
             THEN /\ shipments' = <<>>
                  /\ idx' = 0
                  /\ cycle' = [kind |-> "detailed", outcome |-> "no_connection"]
                  /\ pc' = "done"
             ELSE LET found == get_recent_shipments(pickings, query_ok)
                  IN  /\ shipments' = found
                      /\ IF no_shipments(found)
                         THEN /\ idx' = 0
                              /\ cycle' = [kind |-> "detailed", outcome |-> "no_shipments"]
                              /\ pc' = "done"
                         ELSE /\ idx' = 1
                              /\ cycle' = [kind |-> "detailed", outcome |-> "running"]
                              /\ pc' = "loop"
    /\ last_check_results' = results_after_detailed(last_check_results, shipments')
    /\ UNCHANGED <<pickings, exited, last_delivered_shipments, simple_last, light_reading,
                   delivered_applied, newly_listed, baseline>>
    /\ UNCHANGED <<lookup_locals, timers>>

\* lines 520-526: the candidate is already in the delivered set
loop_skip ==
    /\ exited = "no"
    /\ pc = "loop"
    /\ idx <= Len(shipments)
    /\ already_delivered(shipments[idx].tracking_number, last_delivered_shipments)
    /\ events' = Append(events, SkipEv(shipments[idx].tracking_number))
    /\ idx' = idx + 1
    /\ UNCHANGED <<pickings, exited, last_delivered_shipments, pc, shipments, in_transit_shipments,
                   newly_delivered_shipments, shipments_with_next_steps, webhook_data, message,
                   cycles, cycle>>
    /\ UNCHANGED <<lookup_locals, histories, simple_state, timers>>

\* lines 528-530: the carrier is asked; an error raised by the resolver leaves the cycle
loop_resolve_on(answers) ==
    /\ exited = "no"
    /\ pc = "loop"
    /\ idx <= Len(shipments)
    /\ ~already_delivered(shipments[idx].tracking_number, last_delivered_shipments)
    /\ \E resp \in answers :
          /\ response' = resp
          /\ tracking_data' = track_shipment(resp).value
          /\ observation' = get_shipment_status(resp)
    /\ events' = Append(events, CallEv(shipments[idx].tracking_number, tracking_data'))
    /\ IF observation'.raised
       THEN /\ pc' = pc
            /\ exited' = "Exception"
            /\ cycle' = [kind |-> "detailed", outcome |-> "raised"]
            /\ resolved_now' = resolved_now
       ELSE /\ pc' = "resolved"
            /\ exited' = exited
            /\ cycle' = cycle
            /\ resolved_now' = IF observation'.is_delivered
                               THEN resolved_now \cup {shipments[idx].tracking_number}
                               ELSE resolved_now
    /\ UNCHANGED <<pickings, last_delivered_shipments, webhook_data, message, cycles,
                   resolved_before, delivered_applied, newly_listed, connected, baseline>>
    /\ UNCHANGED <<cycle_locals, simple_state, timers>>

loop_resolve == loop_resolve_on(CycleResponses)

\* lines 532-567: the Ledger is written and the candidate is put in its list
loop_update ==
    /\ exited = "no"
    /\ pc = "resolved"
    /\ LET tracking_number == shipments[idx].tracking_number
           shipment_data   == shipment_data_of(tracking_number, observation)
       IN  \E rpc_ok \in BOOLEAN :
             IF delivered_branch(observation)
             THEN /\ pickings' = update_delivery_status(pickings, tracking_number, TRUE,
                                                        None, None, rpc_ok)
                  /\ newly_delivered_shipments' = Append(newly_delivered_shipments, shipment_data)
                  /\ last_delivered_shipments' =
                         mark_delivered(last_delivered_shipments, tracking_number)
                  /\ events' = events \o
                         <<WriteEv(tracking_number, TRUE,
                                   update_applied(pickings, tracking_number, rpc_ok), <<>>),
                           MarkEv(tracking_number)>>
                  /\ delivered_applied' =
                         IF update_applied(pickings, tracking_number, rpc_ok)
                         THEN [delivered_applied EXCEPT ![tracking_number] = @ + 1]
                         ELSE delivered_applied
                  /\ newly_listed' = [newly_listed EXCEPT ![tracking_number] = @ + 1]
                  /\ UNCHANGED <<in_transit_shipments, shipments_with_next_steps>>
             ELSE /\ pickings' = update_delivery_status(pickings, tracking_number, FALSE,
                                                        observation.description,
                                                        observation.next_steps, rpc_ok)
                  /\ in_transit_shipments' = list_append(in_transit_shipments, shipment_data)
                  /\ shipments_with_next_steps' =
                         with_next_steps(shipments_with_next_steps, shipment_data)
                  /\ events' = Append(events,
                         WriteEv(tracking_number, FALSE,
                                 update_applied(pickings, tracking_number, rpc_ok),
                                 status_text_of(observation.description,
                                                observation.next_steps)))
                  /\ UNCHANGED <<newly_delivered_shipments, last_delivered_shipments,
                                 delivered_applied, newly_listed>>
    /\ idx' = idx + 1
    /\ pc' = "loop"
    /\ response' = NoResponse
    /\ tracking_data' = EmptyDict
    /\ observation' = NoObs
    /\ UNCHANGED <<shipments, exited, webhook_data, message, cycles, cycle, resolved_before, resolved_now,
                   connected, baseline>>
    /\ UNCHANGED <<simple_state, timers>>

\* lines 569-588: the summary webhook, then the next-steps report if the list is not empty
hourly_report ==
    /\ exited = "no"
    /\ pc = "loop"
    /\ idx > Len(shipments)
    /\ webhook_data' = summary_data(shipments, in_transit_shipments, newly_delivered_shipments)
    /\ message' = format_mattermost_message(webhook_data', FALSE)
    /\ events' = events \o <<NotifyEv("summary")>> \o
                 (IF shipments_with_next_steps # <<>>
                  THEN <<NotifyEv("next_steps_report")>> ELSE <<>>)
    /\ cycle' = [kind |-> "detailed", outcome |-> "completed"]
    /\ pc' = "done"
    /\ UNCHANGED <<pickings, exited, last_delivered_shipments, cycles>>
    /\ UNCHANGED <<cycle_locals, lookup_locals, histories, simple_state, timers>>

(***************************************************************************)
(* simple_check, and the scheduler loop around the cycles.                 *)
(***************************************************************************)
simple_check ==
    /\ exited = "no"
    /\ pc = "idle"
    /\ cycles < MaxCycles
    /\ cycles' = cycles + 1
    /\ webhook_data' = NoWebhook
    /\ message' = <<>>
    /\ pc' = "done"
    /\ \E connect_ok \in BOOLEAN, query_ok \in BOOLEAN :
          IF ~connect_ok
          THEN /\ cycle' = [kind |-> "simple", outcome |-> "no_connection"]
               /\ events' = <<>>
               /\ simple_last' = [count |-> NoReading, prev |-> light_reading,
                                  notified |-> FALSE]
               /\ connected' = "no"
               /\ UNCHANGED <<last_check_results, light_reading>>
          ELSE LET current_count  == Len(get_recent_shipments(pickings, query_ok))
                   previous_count == last_count(last_check_results)
                   changed        == count_changed(current_count, previous_count)
               IN  /\ cycle' = [kind |-> "simple", outcome |-> "completed"]
                   /\ events' = IF changed THEN <<NotifyEv("simple")>> ELSE <<>>
                   /\ last_check_results' =
                          store_shipment_count(last_check_results, current_count)
                   /\ simple_last' = [count |-> <<current_count>>, prev |-> light_reading,
                                      notified |-> changed]
                   /\ light_reading' = <<current_count>>
                   /\ connected' = "yes"
    /\ UNCHANGED <<pickings, exited, last_delivered_shipments>>
    /\ UNCHANGED <<resolved_before, resolved_now, delivered_applied, newly_listed, baseline>>
    /\ UNCHANGED <<cycle_locals, lookup_locals, timers>>

\* the cycle returns to the while loop of start_scheduler; its locals are gone
cycle_return ==
    /\ exited = "no"
    /\ pc = "done"
    /\ pc' = "idle"
    /\ shipments' = <<>>
    /\ idx' = 0
    /\ in_transit_shipments' = <<>>
    /\ newly_delivered_shipments' = <<>>
    /\ shipments_with_next_steps' = <<>>
    /\ UNCHANGED <<pickings, exited, last_delivered_shipments, webhook_data, message, events, cycles, cycle>>
    /\ UNCHANGED <<lookup_locals, histories, simple_state, timers>>

\* KeyboardInterrupt, at any point: main catches it and the process ends
stop_signal ==
    /\ exited = "no"
    /\ exited' = "KeyboardInterrupt"
    /\ UNCHANGED <<pickings, pc, last_delivered_shipments, webhook_data, message, events, cycles, cycle>>
    /\ UNCHANGED <<cycle_locals, lookup_locals, histories, simple_state, timers>>

\* the Ledger's other users: a new DHL picking is done, most recent first
ledger_new_shipment ==
    /\ exited = "no"
    /\ pc = "idle"
    /\ Len(pickings) < MaxPickings
    /\ \E ref \in TrackingIds : pickings' = <<Picking(ref, FALSE)>> \o pickings
    /\ UNCHANGED <<last_delivered_shipments, pc, exited, webhook_data, message, events, cycles, cycle>>
    /\ UNCHANGED <<cycle_locals, lookup_locals, histories, simple_state, timers>>

Next ==
    \/ load_delivered_shipments
    \/ send_startup_notification
    \/ hourly_begin
    \/ loop_skip
    \/ loop_resolve
    \/ loop_update
    \/ hourly_report
    \/ simple_check
    \/ cycle_return
    \/ stop_signal
    \/ ledger_new_shipment

Spec == Init /\ [][Next]_vars

(***************************************************************************)
(* The resolvers on their own: one lookup, answered by any carrier         *)
(* response, resolved by one of the three variants of the source.          *)
(***************************************************************************)
InitResolve ==
    /\ pickings = <<>>
    /\ pc = "lookup"
    /\ exited = "no"
    /\ last_delivered_shipments = {}
    /\ last_check_results = EmptyDict
    /\ shipments = <<>>
    /\ idx = 0
    /\ in_transit_shipments = <<>>
    /\ newly_delivered_shipments = <<>>
    /\ shipments_with_next_steps = <<>>
    /\ response \in CarrierResponses
    /\ tracking_data = EmptyDict
    /\ observation = NoObs
    /\ webhook_data = NoWebhook
    /\ message = <<>>
    /\ events = <<>>
    /\ cycles = 0
    /\ simple_last = NoSimple
    /\ light_reading = NoReading
    /\ resolved_before = {}
    /\ resolved_now = {}
    /\ cycle = NoCycle
    /\ delivered_applied = [t \in TrackingIds |-> 0]
    /\ newly_listed = [t \in TrackingIds |-> 0]
    /\ connected = "none"
    /\ baseline = {}
    /\ due_simple = 0
    /\ due_detailed = 0
    /\ ran_simple = 0
    /\ ran_detailed = 0

resolve_frame ==
    /\ UNCHANGED <<pickings, exited, last_delivered_shipments, response, webhook_data, message,
                   events, cycles, cycle>>
    /\ UNCHANGED <<cycle_locals, histories, simple_state, timers>>

\* src/automated_tracker.py: dhl_tracker.get_shipment_status(tracking_number)
resolve_automated ==
    /\ pc = "lookup"
    /\ pc' = "automated"
    /\ tracking_data' = track_shipment(response).value
    /\ observation' = get_shipment_status(response)
    /\ resolve_frame

\* src/shiptracker.py: dhl_tracker.get_shipment_status(tracking)
resolve_shiptracker ==
    /\ pc = "lookup"
    /\ pc' = "shiptracker"
    /\ tracking_data' = track_shipment_unguarded(response).value
    /\ observation' = shiptracker_get_shipment_status(response)
    /\ resolve_frame

\* src/track_shipments.py: track_shipment, then is_shipment_delivered(tracking_data)
resolve_track_shipments ==
    /\ pc = "lookup"
    /\ pc' = "track_shipments"
    /\ LET t == track_shipment_unguarded(response)
       IN  /\ tracking_data' = t.value
           /\ observation' = IF t.raised THEN ObsRaised(t.exc)
                             ELSE is_shipment_delivered(t.value)
    /\ resolve_frame

NextResolve ==
    \/ resolve_automated
    \/ resolve_shiptracker
    \/ resolve_track_shipments

SpecResolve == InitResolve /\ [][NextResolve]_vars

(***************************************************************************)
(* start_scheduler with the clock of the schedule package: each job has    *)
(* one next_run; the marks of a job are the times next_run, next_run +     *)
(* interval, ... passing.  The body of a job is one running phase here.    *)
(***************************************************************************)
MaxMissed == 3

MaxRuns == 4

\* a job that run_pending runs every time it looks
is_due_always(marks) == TRUE

\* Job.should_run: datetime.now() >= self.next_run
is_due(marks) == marks >= 1

\* a job keeping one pending run per missed mark
after_run_queued(marks) == marks - 1

\* Job.run, after job_func returned: next_run = now + interval, whatever was missed
after_run(marks) == 0

\* while True: schedule.run_pending(); time.sleep(60)
in_tick_loop(p) == p = "idle"

schedule_frame ==
    /\ UNCHANGED <<pickings, exited, last_delivered_shipments, webhook_data, message, events>>
    /\ UNCHANGED <<cycle_locals, lookup_locals, histories, simple_state>>

\* lines 648-649: both jobs are registered, next_run one interval from now
schedule_jobs ==
    /\ exited = "no"
    /\ pc = "started"
    /\ pc' = "scheduled"
    /\ UNCHANGED <<cycles, cycle, timers>>
    /\ schedule_frame

\* line 652: self.hourly_detailed_check(), called directly and not by its job
initial_check ==
    /\ exited = "no"
    /\ pc = "scheduled"
    /\ pc' = "initial"
    /\ cycles' = cycles + 1
    /\ cycle' = [kind |-> "detailed", outcome |-> "running"]
    /\ ran_detailed' = ran_detailed + 1
    /\ UNCHANGED <<due_simple, due_detailed, ran_simple>>
    /\ schedule_frame

\* time passes a 10-minute mark of the simple_check job
mark_simple ==
    /\ exited = "no"
    /\ pc \in {"initial", "running", "idle"}
    /\ due_simple < MaxMissed
    /\ due_simple' = due_simple + 1
    /\ ran_simple' = 0
    /\ UNCHANGED <<pc, cycles, cycle, due_detailed, ran_detailed>>
    /\ schedule_frame

\* time passes an hour mark of the hourly_detailed_check job
mark_detailed ==
    /\ exited = "no"
    /\ pc \in {"initial", "running", "idle"}
    /\ due_detailed < MaxMissed
    /\ due_detailed' = due_detailed + 1
    /\ ran_detailed' = 0
    /\ UNCHANGED <<pc, cycles, cycle, due_simple, ran_simple>>
    /\ schedule_frame

\* run_pending finds the simple_check job due and runs it
run_pending_simple ==
    /\ exited = "no"
    /\ in_tick_loop(pc)
    /\ is_due(due_simple)
    /\ cycles < MaxRuns
    /\ pc' = "running"
    /\ cycles' = cycles + 1
    /\ cycle' = [kind |-> "simple", outcome |-> "running"]
    /\ ran_simple' = ran_simple + 1
    /\ UNCHANGED <<due_simple, due_detailed, ran_detailed>>
    /\ schedule_frame

\* run_pending finds the hourly_detailed_check job due and runs it
run_pending_detailed ==
    /\ exited = "no"
    /\ in_tick_loop(pc)
    /\ is_due(due_detailed)
    /\ cycles < MaxRuns
    /\ pc' = "running"
    /\ cycles' = cycles + 1
    /\ cycle' = [kind |-> "detailed", outcome |-> "running"]
    /\ ran_detailed' = ran_detailed + 1
    /\ UNCHANGED <<due_simple, due_detailed, ran_simple>>
    /\ schedule_frame

\* the running cycle returns; a job run by run_pending is given its new next_run
job_returns ==
    /\ exited = "no"
    /\ pc \in {"initial", "running"}
    /\ pc' = "idle"
    /\ LET missed == IF cycle.kind = "simple" THEN due_simple ELSE due_detailed
       IN  cycle' = [kind |-> cycle.kind,
                     outcome |-> IF missed >= 2 THEN "overran" ELSE "completed"]
    /\ due_simple' = IF pc = "running" /\ cycle.kind = "simple"
                     THEN after_run(due_simple) ELSE due_simple
    /\ due_detailed' = IF pc = "running" /\ cycle.kind = "detailed"
                       THEN after_run(due_detailed) ELSE due_detailed
    /\ UNCHANGED <<cycles, ran_simple, ran_detailed>>
    /\ schedule_frame

NextSchedule ==
    \/ load_delivered_shipments
    \/ send_startup_notification
    \/ schedule_jobs
    \/ initial_check
    \/ mark_simple
    \/ mark_detailed
    \/ run_pending_simple
    \/ run_pending_detailed
    \/ job_returns
    \/ stop_signal

SpecSchedule == Init /\ [][NextSchedule]_vars

(***************************************************************************)
(* The detailed cycles of a process whose Ledger holds one undelivered     *)
(* picking, run against every failing answer of the carrier.               *)
(***************************************************************************)
InitFailures == Init /\ pickings = <<Picking("T1", FALSE)>>

\* the failing answers, and the delivered answer of CycleResponses
FailureCycleResponses ==
    FailedLookups
    \cup {WithStatus(StatusInfo(STR_Delivered_cap, Missing, STR_delivered, STR_Await_customs))}

loop_resolve_failing == loop_resolve_on(FailureCycleResponses)

NextFailures ==
    \/ load_delivered_shipments
    \/ send_startup_notification
    \/ hourly_begin
    \/ loop_skip
    \/ loop_resolve_failing
    \/ loop_update
    \/ hourly_report
    \/ cycle_return

SpecFailures == InitFailures /\ [][NextFailures]_vars

(***************************************************************************)
(* format_mattermost_message on its own: the summary data of a cycle with  *)
(* in-transit lists longer than a cycle of the small Ledger above gives.   *)
(***************************************************************************)
MaxListed == 12

MaxDelivered == 2

\* shipment_data of the i-th in-transit shipment of a long list
listed_in_transit(i, with_steps) ==
    [tracking_number |-> ToString(i), status |-> STR_In_transit,
     next_steps |-> IF with_steps THEN STR_Await_customs ELSE None, is_delivered |-> FALSE]

\* shipment_data of the j-th newly delivered shipment
listed_delivered(j) ==
    [tracking_number |-> "D" \o ToString(j), status |-> STR_Delivered_cap,
     next_steps |-> None, is_delivered |-> TRUE]

\* webhook_data of a cycle with n in-transit and m newly delivered shipments
FormatInputs ==
    {summary_data([i \in 1..(n + m) |-> i],
                  [i \in 1..n |-> listed_in_transit(i, with_steps)],
                  [j \in 1..m |-> listed_delivered(j)]) :
        n \in 0..MaxListed, m \in 0..MaxDelivered, with_steps \in BOOLEAN}

InitFormat ==
    /\ pickings = <<>>
    /\ pc = "format"
    /\ exited = "no"
    /\ last_delivered_shipments = {}
    /\ last_check_results = EmptyDict
    /\ shipments = <<>>
    /\ idx = 0
    /\ in_transit_shipments = <<>>
    /\ newly_delivered_shipments = <<>>
    /\ shipments_with_next_steps = <<>>
    /\ response = NoResponse
    /\ tracking_data = EmptyDict
    /\ observation = NoObs
    /\ webhook_data \in FormatInputs
    /\ message = <<>>
    /\ events = <<>>
    /\ cycles = 0
    /\ simple_last = NoSimple
    /\ light_reading = NoReading
    /\ resolved_before = {}
    /\ resolved_now = {}
    /\ cycle = NoCycle
    /\ delivered_applied = [t \in TrackingIds |-> 0]
    /\ newly_listed = [t \in TrackingIds |-> 0]
    /\ connected = "none"
    /\ baseline = {}
    /\ due_simple = 0
    /\ due_detailed = 0
    /\ ran_simple = 0
    /\ ran_detailed = 0

\* send_webhook(data): mattermost_payload = self.format_mattermost_message(data, is_startup)
format_message ==
    /\ pc = "format"
    /\ pc' = "formatted"
    /\ message' = format_mattermost_message(webhook_data, FALSE)
    /\ UNCHANGED <<pickings, exited, last_delivered_shipments, webhook_data, events, cycles, cycle>>
    /\ UNCHANGED <<cycle_locals, lookup_locals, histories, simple_state, timers>>

NextFormat == format_message

SpecFormat == InitFormat /\ [][NextFormat]_vars

(***************************************************************************)
(* Properties of the detailed cycle and the delivered set.                 *)
(***************************************************************************)
ListedIds(list) == {list[i].tracking_number : i \in DOMAIN list}

CalledIds == {events[i].id : i \in {j \in DOMAIN events : events[j].type = "call"}}

SkippedIds == {events[i].id : i \in {j \in DOMAIN events : events[j].type = "skip"}}

InDetailedCycle == cycle.kind = "detailed" /\ pc \in {"loop", "resolved", "done"}

\* the step that processes a candidate whose id is already in the delivered set
C1_Case ==
    /\ exited = "no"
    /\ pc = "loop"
    /\ idx \in DOMAIN shipments
    /\ shipments[idx].tracking_number \in last_delivered_shipments
    /\ exited' = "no"

\* C1: in a detailed cycle, a candidate whose tracking id is in the delivered set
\* when it is processed causes no carrier call and no Ledger write, and is put in
\* none of the cycle's lists: the step only skips it and moves to the next one.
C1_SkipProperty ==
    [][C1_Case =>
          /\ events' = Append(events, SkipEv(shipments[idx].tracking_number))
          /\ pickings' = pickings
          /\ in_transit_shipments' = in_transit_shipments
          /\ newly_delivered_shipments' = newly_delivered_shipments
          /\ shipments_with_next_steps' = shipments_with_next_steps
          /\ idx' = idx + 1]_vars

\* a cycle has skipped a candidate that was in the delivered set, after tracking another
C1_Witness ==
    /\ InDetailedCycle
    /\ Len(events) >= 2
    /\ events[Len(events)].type = "skip"
    /\ events[Len(events)].id \in last_delivered_shipments
    /\ CalledIds # {}
    /\ events[Len(events)].id \notin CalledIds

\* C2: the delivered set only grows: no step of the process (baseline load, simple
\* cycle, detailed cycle) removes an identifier from it.
C2_DeliveredSetMonotonic ==
    [][last_delivered_shipments \subseteq last_delivered_shipments']_vars

\* after the baseline load and a detailed cycle that added an id, a simple cycle has run
\* and both ids are in the set
C2_Witness ==
    /\ cycle = [kind |-> "simple", outcome |-> "completed"]
    /\ resolved_before \cup resolved_now # {}
    /\ last_delivered_shipments = TrackingIds
    /\ \E t \in TrackingIds : t \notin resolved_before \cup resolved_now

\* C3: an id that an earlier detailed cycle of the process resolved as delivered is
\* skipped by a later cycle: the later cycle makes no carrier call for it and lists it
\* in none of its in-transit, newly-delivered and attention-needed lists.
C3_DeliveredSkippedNextCycle ==
    \A t \in resolved_before :
        /\ t \notin CalledIds
        /\ t \notin ListedIds(in_transit_shipments)
        /\ t \notin ListedIds(newly_delivered_shipments)
        /\ t \notin ListedIds(shipments_with_next_steps)

\* a later cycle was handed, as a candidate, an id resolved delivered before, and skipped it
C3_Witness ==
    /\ InDetailedCycle
    /\ pc = "done"
    /\ cycle.outcome = "completed"
    /\ \E t \in resolved_before : t \in ListedIds(shipments) /\ t \in SkippedIds

\* the candidate being processed was resolved delivered and is about to be recorded
PendingDelivered(t) ==
    /\ pc = "resolved"
    /\ observation.is_delivered
    /\ shipments[idx].tracking_number = t

DetailedCompleted ==
    pc = "done" /\ cycle = [kind |-> "detailed", outcome |-> "completed"]

\* C4: for every id the carrier resolved as delivered, the delivered=True write has been
\* applied to the Ledger exactly once when the cycle that resolved it is over.
C4_DeliveredWrittenExactlyOnce ==
    pc \in {"done", "idle"} =>
        \A t \in resolved_before \cup resolved_now : delivered_applied[t] = 1

SimpleCompleted ==
    pc = "done" /\ cycle = [kind |-> "simple", outcome |-> "completed"]

SimpleNotified == \E i \in DOMAIN events : events[i] = NotifyEv("simple")

\* the count the previous simple cycle read; 0, the code's default, before any
PreviousLightReading == IF simple_last.prev = NoReading THEN 0 ELSE simple_last.prev[1]

C7_SimpleStoresCount ==
    SimpleCompleted =>
        /\ "shipment_count" \in DOMAIN last_check_results
        /\ last_check_results["shipment_count"] = simple_last.count[1]

\* a simple cycle read the same non-zero count as the one before, sent nothing and stored it
C7_Witness ==
    /\ SimpleCompleted
    /\ simple_last.prev = simple_last.count
    /\ simple_last.count[1] > 0
    /\ ~SimpleNotified
    /\ last_check_results["shipment_count"] = simple_last.count[1]

(***************************************************************************)
(* Properties of the carrier status resolver.                              *)
(***************************************************************************)
\* the lookup failed: the request raised, the status is not 200, or the body is no JSON
IsFailure(resp) == resp.exc \/ resp.status_code # 200 \/ ~resp.json_ok

\* the lookup failed with an HTTP failure code
HasFailureCode(resp) == ~resp.exc /\ resp.status_code # 200

\* the description fixed for each failure of FailureCodes, and for a failure without code
FailureDescription(resp) ==
    IF ~HasFailureCode(resp) THEN <<"E", "r", "r", "o", "r", " ", "N", "o", "n", "e">>
    ELSE CASE resp.status_code = 404 -> <<"N", "o", "t", " ", "F", "o", "u", "n", "d">>
           [] resp.status_code = 401 -> <<"A", "u", "t", "h", " ", "E", "r", "r", "o", "r">>
           [] resp.status_code = 429 ->
                  <<"R", "a", "t", "e", " ", "L", "i", "m", "i", "t", "e", "d">>
           [] resp.status_code = 400 -> <<"E", "r", "r", "o", "r", " ", "4", "0", "0">>
           [] resp.status_code = 403 -> <<"E", "r", "r", "o", "r", " ", "4", "0", "3">>
           [] resp.status_code = 500 -> <<"E", "r", "r", "o", "r", " ", "5", "0", "0">>
           [] resp.status_code = 503 -> <<"E", "r", "r", "o", "r", " ", "5", "0", "3">>

\* C8: for every carrier failure the resolver returns, without raising, the fixed
\* description of the failure (404 "Not Found", 401 "Auth Error", 429 "Rate Limited",
\* else "Error <code>"), no next action and delivered = false: in automated_tracker.py
\* for every failure, in shiptracker.py for every failure code.
C8_FailureGivesObservation ==
    /\ (pc = "automated" /\ IsFailure(response)) =>
           observation = [raised |-> FALSE, exc |-> "",
                          description |-> FailureDescription(response),
                          next_steps |-> None, is_delivered |-> FALSE]
    /\ (pc = "shiptracker" /\ HasFailureCode(response)) =>
           observation = [raised |-> FALSE, exc |-> "",
                          description |-> FailureDescription(response),
                          next_steps |-> None, is_delivered |-> FALSE]

\* the lookup was answered 429 and the resolver returned ("Rate Limited", None, False)
C8_Witness ==
    /\ pc = "automated"
    /\ response.status_code = 429
    /\ ~observation.raised
    /\ observation.description = STR_Rate_Limited
    /\ observation.next_steps = None
    /\ ~observation.is_delivered

\* the lookup succeeded and its first shipment has a status record
HasStatus(resp) ==
    /\ ~IsFailure(resp)
    /\ "shipments" \in DOMAIN resp.body
    /\ resp.body["shipments"] # <<>>
    /\ "status" \in DOMAIN resp.body["shipments"][1]

StatusOf(resp) == resp.body["shipments"][1]["status"]

\* the description of the record: its description, else its status, else "Unknown"
DescriptionOf(resp) ==
    IF "description" \in DOMAIN StatusOf(resp) THEN StatusOf(resp)["description"]
    ELSE IF "status" \in DOMAIN StatusOf(resp) THEN StatusOf(resp)["status"]
    ELSE <<"U", "n", "k", "n", "o", "w", "n">>

CodeOf(resp) ==
    IF "statusCode" \in DOMAIN StatusOf(resp) THEN StatusOf(resp)["statusCode"] ELSE <<>>

\* the descriptions of the inputs that, lower-cased, contain "delivered"
DeliveredWordings ==
    {STR_Delivered_cap, STR_DELIVERED, STR_Shipment_delivered, STR_Undelivered, STR_delivered}

\* the status codes of the inputs that, lower-cased, are "delivered" or "ok"
DeliveredCodes == {STR_delivered, STR_DELIVERED, STR_ok, STR_OK, STR_Ok}

\* C9: for a successful lookup with a status record (description and status code being
\* strings or absent) the delivered flag is true exactly when the lower-cased description
\* contains "delivered" or the lower-cased status code is "delivered" or "ok"; for
\* failures and lookups without a status record it is false.  Checked for the three
\* resolvers of the source.
C9_DeliveredDetection ==
    pc \in {"automated", "shiptracker", "track_shipments"} =>
        IF HasStatus(response)
        THEN (DescriptionOf(response) # None /\ CodeOf(response) # None) =>
                 /\ ~observation.raised
                 /\ observation.is_delivered <=>
                        \/ DescriptionOf(response) \in DeliveredWordings
                        \/ CodeOf(response) \in DeliveredCodes
        ELSE ~observation.is_delivered

\* an upper-case "DELIVERED" description with a status code that is not a delivered one
C9_Witness ==
    /\ pc = "automated"
    /\ HasStatus(response)
    /\ DescriptionOf(response) = STR_DELIVERED
    /\ CodeOf(response) = STR_transit
    /\ observation.is_delivered

\* C10: an observation with delivered = true carries no next action, so no entry of the
\* attention-needed list is a delivered one and no newly-delivered entry has next steps.
C10_DeliveredHasNoNextSteps ==
    /\ (~observation.raised /\ observation.is_delivered) => observation.next_steps = None
    /\ \A i \in DOMAIN shipments_with_next_steps :
           ~shipments_with_next_steps[i].is_delivered
    /\ \A i \in DOMAIN newly_delivered_shipments :
           /\ newly_delivered_shipments[i].next_steps = None
           /\ \A j \in DOMAIN shipments_with_next_steps :
                  shipments_with_next_steps[j] # newly_delivered_shipments[i]

\* the carrier's record of a delivered shipment carried nextSteps; the shipment is listed
\* as newly delivered, and the attention-needed list holds another shipment
C10_Witness ==
    /\ InDetailedCycle
    /\ shipments_with_next_steps # <<>>
    /\ newly_delivered_shipments # <<>>
    /\ \E i \in DOMAIN events :
           /\ events[i].type = "call"
           /\ events[i].text = STR_Await_customs
           /\ events[i].id \in ListedIds(newly_delivered_shipments)
           /\ events[i].id \notin ListedIds(in_transit_shipments)

(***************************************************************************)
(* Properties of the result of the detailed cycle.                         *)
(***************************************************************************)
\* the number of events of one type made by the running cycle
CountEv(type) == Cardinality({i \in DOMAIN events : events[i].type = type})

\* C11: in the summary sent by a detailed cycle, total is the number of candidates the
\* Ledger returned for the cycle, the skipped ones included, in_transit is the length
\* of the in-transit list and newly_delivered the length of the newly-delivered list.
C11_SummaryCounts ==
    DetailedCompleted =>
        /\ webhook_data.summary.total_shipments = Len(shipments)
        /\ webhook_data.summary.total_shipments = CountEv("skip") + CountEv("call")
        /\ webhook_data.summary.in_transit = Len(in_transit_shipments)
        /\ webhook_data.summary.in_transit = Len(webhook_data.in_transit_shipments)
        /\ webhook_data.summary.newly_delivered = Len(newly_delivered_shipments)
        /\ webhook_data.summary.newly_delivered = Len(webhook_data.newly_delivered_shipments)
        /\ webhook_data.summary.newly_delivered = CountEv("mark")

\* two candidates, one skipped as already delivered and one newly delivered: total 2
C11_Witness ==
    /\ DetailedCompleted
    /\ CountEv("skip") = 1
    /\ webhook_data.summary = [total_shipments |-> 2, in_transit |-> 0, newly_delivered |-> 1]

\* the entry carries a recommended next action
HasNextAction(shipment_data) ==
    shipment_data.next_steps # None /\ shipment_data.next_steps # <<>>

NextStepsReportsSent ==
    Cardinality({i \in DOMAIN events : events[i] = NotifyEv("next_steps_report")})

\* C12: the attention-needed list of a detailed cycle is the in-transit list of the cycle
\* restricted to the entries that carry a next action, in processing order, and the cycle
\* sends the next-steps report, one message apart from the summary, exactly when that
\* list is not empty.
C12_AttentionListAndReport ==
    /\ InDetailedCycle =>
          shipments_with_next_steps = SelectSeq(in_transit_shipments, HasNextAction)
    /\ DetailedCompleted =>
          /\ NextStepsReportsSent = (IF shipments_with_next_steps # <<>> THEN 1 ELSE 0)
          /\ CountEv("notify") = 1 + NextStepsReportsSent
    /\ (InDetailedCycle /\ ~DetailedCompleted) => NextStepsReportsSent = 0

\* two in-transit shipments, only one of them with next steps: the report was sent for it
C12_Witness ==
    /\ DetailedCompleted
    /\ Len(in_transit_shipments) = 2
    /\ Len(shipments_with_next_steps) = 1
    /\ shipments_with_next_steps[1].next_steps = STR_Await_customs
    /\ NextStepsReportsSent = 1

\* a completed cycle with in-transit shipments and none to report sends the summary only
C12_WitnessNoReport ==
    /\ DetailedCompleted
    /\ in_transit_shipments # <<>>
    /\ shipments_with_next_steps = <<>>
    /\ CountEv("notify") = 1

(***************************************************************************)
(* Properties of the cycle boundary and of the scheduler.                  *)
(***************************************************************************)
\* the step in which a detailed cycle begins while the Ledger cannot be connected to
C13_Case ==
    /\ cycles' = cycles + 1
    /\ cycle'.kind = "detailed"
    /\ connected' = "no"

\* C13: a detailed cycle that cannot connect to the Ledger when it begins makes no
\* carrier call and no Ledger write, produces no result and no notification, leaves
\* the delivered set as it was and returns to the scheduler without raising.
C13_FailsClosed ==
    [][C13_Case =>
          /\ pc' = "done"
          /\ exited' = "no"
          /\ events' = <<>>
          /\ webhook_data' = NoWebhook
          /\ shipments' = <<>>
          /\ in_transit_shipments' = <<>>
          /\ newly_delivered_shipments' = <<>>
          /\ shipments_with_next_steps' = <<>>
          /\ pickings' = pickings
          /\ last_delivered_shipments' = last_delivered_shipments]_vars

\* a detailed cycle found the Ledger unreachable while open candidates were waiting, and
\* is over with nothing done
C13_Witness ==
    /\ pc = "done"
    /\ cycle = [kind |-> "detailed", outcome |-> "no_connection"]
    /\ connected = "no"
    /\ \E i \in DOMAIN pickings : IsOpen(pickings[i])
    /\ events = <<>>

\* C14: an error raised inside a cycle is caught at the cycle boundary and never ends
\* the scheduler loop: the process is only ever ended by the external stop signal.
C14_CycleErrorNeverEndsLoop == exited \in {"no", "KeyboardInterrupt"}

JobRunning == pc \in {"initial", "running"}

LaterCycleStarts == cycles >= 1 /\ cycles' = cycles + 1

\* C16: start_scheduler loads the baseline, sends the startup notification, runs one
\* detailed cycle at once and only then enters the tick loop: no cycle runs before the
\* baseline load and the notification, the first cycle is a detailed one, and every
\* later cycle is started by the loop for a job whose mark has passed.
C16_StartupOrdering ==
    /\ [](/\ pc = "boot" => (connected = "none" /\ webhook_data = NoWebhook /\ cycles = 0)
          /\ pc = "loaded" => (connected # "none" /\ webhook_data = NoWebhook /\ cycles = 0)
          /\ pc \in {"started", "scheduled"} =>
                 (connected # "none" /\ webhook_data.kind = "startup" /\ cycles = 0)
          /\ cycles >= 1 => (connected # "none" /\ webhook_data.kind = "startup")
          /\ cycles = 1 => (cycle.kind = "detailed" /\ pc \in {"initial", "idle"})
          /\ pc = "idle" => cycles >= 1)
    /\ [][LaterCycleStarts =>
             /\ pc = "idle"
             /\ IF cycle'.kind = "simple" THEN due_simple >= 1 ELSE due_detailed >= 1]_vars

\* after the immediate detailed cycle the loop has run a simple cycle as second cycle
C16_Witness ==
    /\ pc = "idle"
    /\ cycles = 2
    /\ cycle.kind = "simple"
    /\ webhook_data.kind = "startup"

(***************************************************************************)
(* Properties of the baseline and of the two cadences.                     *)
(***************************************************************************)
\* the ids of the pickings the Ledger holds as delivered
LedgerDeliveredIds == {pickings[i].ref : i \in {j \in DOMAIN pickings : pickings[j].delivered}}

\* C17: every id the Ledger reported as delivered to the baseline load is in the
\* delivered set from the end of the load on, so before the first cycle, and no detailed
\* cycle of the process resolves such an id against the carrier or lists it as newly
\* delivered.
C17_BaselineNeverReported ==
    /\ pc # "boot" => baseline \subseteq last_delivered_shipments
    /\ (cycles = 0 /\ baseline # {}) => baseline = LedgerDeliveredIds
    /\ \A t \in baseline :
          /\ t \notin CalledIds
          /\ t \notin ListedIds(newly_delivered_shipments)
          /\ t \notin resolved_before \cup resolved_now
          /\ newly_listed[t] = 0

\* an id of the baseline came back as a candidate of a later cycle, which skipped it and
\* completed without listing it
C17_Witness ==
    /\ DetailedCompleted
    /\ \E t \in baseline : t \in ListedIds(shipments) /\ t \in SkippedIds
    /\ baseline \cap ListedIds(newly_delivered_shipments) = {}
    /\ webhook_data.summary.newly_delivered = 0

\* the step that is a whole simple cycle
SimpleCycleStep == cycles' = cycles + 1 /\ cycle'.kind = "simple"

\* a step of a detailed cycle: its beginning, or a step of its loop and report
DetailedCycleStep ==
    \/ cycles' = cycles + 1 /\ cycle'.kind = "detailed"
    \/ pc \in {"loop", "resolved"} /\ exited = "no" /\ exited' # "KeyboardInterrupt"

\* C18: a simple cycle makes no carrier call and no Ledger write and leaves the delivered
\* set as it was; a detailed cycle leaves last_check_results as it was.
C18_CadencesIndependent ==
    /\ [][SimpleCycleStep =>
             /\ pickings' = pickings
             /\ last_delivered_shipments' = last_delivered_shipments
             /\ \A i \in DOMAIN events' : events'[i] = NotifyEv("simple")
             /\ <<response, tracking_data, observation>>' = <<response, tracking_data, observation>>
             /\ delivered_applied' = delivered_applied]_vars
    /\ [][DetailedCycleStep => last_check_results' = last_check_results]_vars

\* a simple cycle stored a count and notified; before it, a detailed cycle had added an id
\* to the delivered set, which still holds it
C18_Witness ==
    /\ SimpleCompleted
    /\ SimpleNotified
    /\ resolved_now # {}
    /\ resolved_now \subseteq last_delivered_shipments
    /\ "shipment_count" \in DOMAIN last_check_results

(***************************************************************************)
(* Properties of malformed answers and of the stop signal.                 *)
(***************************************************************************)
\* the carrier answered the lookup of the running cycle with a status record whose
\* description or status code is null
NullStatusField ==
    /\ InDetailedCycle
    /\ response # NoResponse
    /\ HasStatus(response)
    /\ (DescriptionOf(response) = None \/ CodeOf(response) = None)

\* C19: a malformed or missing field of a carrier answer is replaced by its default and
\* never aborts the detailed cycle: the lookup gives an observation and the cycle goes
\* on with its remaining candidates.
C19_MalformedFieldNeverAborts ==
    NullStatusField =>
        /\ ~observation.raised
        /\ cycle.outcome # "raised"
        /\ exited # "Exception"

\* C20: a stop signal that arrives while a cycle is running ends the scheduler loop only
\* after that cycle has completed: the process is never ended by the signal in the
\* middle of the candidates of a detailed cycle.
C20_StopAfterCycleCompletes ==
    exited = "KeyboardInterrupt" => ~(cycle.outcome = "running" /\ pc \in {"loop", "resolved"})

(***************************************************************************)
(* Properties of the insertion into the delivered set.                     *)
(***************************************************************************)
\* C21: inserting an id into the delivered set twice, by the baseline load, by a detailed
\* cycle or by both, gives the set that inserting it once gives: the set with that id
\* and its earlier members.
C21_MarkDeliveredIdempotent ==
    LET S == last_delivered_shipments
    IN  /\ \A t \in TrackingIds :
               /\ mark_delivered(S, t) = S \cup {t}
               /\ mark_delivered(mark_delivered(S, t), t) = mark_delivered(S, t)
               /\ t \in delivered_refs(pickings) =>
                      mark_delivered(seed_delivered(S, pickings), t) = seed_delivered(S, pickings)
        /\ seed_delivered(seed_delivered(S, pickings), pickings) = seed_delivered(S, pickings)

\* the baseline load met the same id on two delivered pickings and the set holds it once
C21_Witness ==
    /\ pc = "loaded"
    /\ Len(pickings) = 2
    /\ pickings[1].delivered /\ pickings[2].delivered
    /\ pickings[1].ref = pickings[2].ref
    /\ last_delivered_shipments = {pickings[1].ref}
    /\ mark_delivered(last_delivered_shipments, pickings[1].ref) = last_delivered_shipments

\* the step of a detailed cycle that records the observation of the current candidate
RecordsObservation == exited = "no" /\ pc = "resolved" /\ idx' = idx + 1

\* the events of the cycle hold, for the mark at position i, the delivered write for the
\* same id right before it and the carrier call for it right before the write
WriteThenMark(i) ==
    /\ i >= 3
    /\ events[i - 1].type = "write"
    /\ events[i - 1].id = events[i].id
    /\ events[i - 1].delivered
    /\ events[i - 2].type = "call"
    /\ events[i - 2].id = events[i].id

\* C22: a detailed cycle adds an id to the delivered set only when the carrier lookup of
\* that cycle returned delivered = true for it, and after the delivered = true write to
\* the Ledger was issued; an id resolved with delivered = false is not added.
C22_InsertOnlyAfterDeliveredWrite ==
    /\ [][(last_delivered_shipments' # last_delivered_shipments /\ pc # "boot") =>
             /\ RecordsObservation
             /\ ~observation.raised
             /\ observation.is_delivered
             /\ shipments[idx].tracking_number \in resolved_now
             /\ last_delivered_shipments' =
                    last_delivered_shipments \cup {shipments[idx].tracking_number}
             /\ events'[Len(events')] = MarkEv(shipments[idx].tracking_number)]_vars
    /\ [][(RecordsObservation /\ ~observation.is_delivered) =>
             last_delivered_shipments' = last_delivered_shipments]_vars
    /\ [](\A i \in DOMAIN events : events[i].type = "mark" => WriteThenMark(i))
    /\ [](last_delivered_shipments \subseteq baseline \cup resolved_before \cup resolved_now)

\* one candidate was resolved delivered, written and then added; another was resolved
\* in transit and is not in the set
C22_Witness ==
    /\ InDetailedCycle
    /\ \E i \in DOMAIN events : events[i].type = "mark" /\ events[i].id \in last_delivered_shipments
    /\ \E j \in DOMAIN in_transit_shipments :
           /\ in_transit_shipments[j].tracking_number \in CalledIds
           /\ in_transit_shipments[j].tracking_number \notin last_delivered_shipments

\* "Status: <description>", followed by "\nNext Steps: <next action>" when there is one
ExpectedStatusText(obs) ==
    IF obs.next_steps = None \/ obs.next_steps = <<>>
    THEN STR_Status_ \o obs.description
    ELSE STR_Status_ \o obs.description \o STR_newline \o STR_Next_Steps_ \o obs.next_steps

\* C23: for a candidate resolved with delivered = false the cycle issues one in-transit
\* write to the Ledger with the status description and the next action of the
\* observation, appends the shipment to the in-transit list, and leaves the delivered
\* set and every delivered flag of the Ledger as they were.
C23_InTransitWrite ==
    [][(RecordsObservation /\ ~observation.is_delivered) =>
          LET t == shipments[idx].tracking_number
          IN  /\ Len(events') = Len(events) + 1
              /\ \E applied \in BOOLEAN :
                     /\ events'[Len(events')] =
                            WriteEv(t, FALSE, applied, ExpectedStatusText(observation))
                     /\ applied =>
                            \A i \in DOMAIN pickings : pickings[i].ref = t =>
                                pickings'[i].last_status = ExpectedStatusText(observation)
              /\ in_transit_shipments' =
                     Append(in_transit_shipments,
                            [tracking_number |-> t, status |-> observation.description,
                             next_steps |-> observation.next_steps, is_delivered |-> FALSE])
              /\ newly_delivered_shipments' = newly_delivered_shipments
              /\ last_delivered_shipments' = last_delivered_shipments
              /\ DOMAIN pickings' = DOMAIN pickings
              /\ \A i \in DOMAIN pickings : pickings'[i].delivered = pickings[i].delivered
              /\ delivered_applied' = delivered_applied]_vars

\* the last step wrote status and next steps of an in-transit candidate to its picking,
\* which is still not delivered
C23_Witness ==
    /\ InDetailedCycle
    /\ pc = "loop"
    /\ events # <<>>
    /\ events[Len(events)].type = "write"
    /\ ~events[Len(events)].delivered
    /\ events[Len(events)].applied
    /\ events[Len(events)].text =
           STR_Status_ \o STR_In_transit \o STR_newline \o STR_Next_Steps_ \o STR_Await_customs
    /\ \E i \in DOMAIN pickings :
           /\ pickings[i].ref = events[Len(events)].id
           /\ ~pickings[i].delivered
           /\ pickings[i].last_status = events[Len(events)].text

(***************************************************************************)
(* Properties of the order of processing.                                  *)
(***************************************************************************)
Ids(list) == [i \in DOMAIN list |-> list[i].tracking_number]

\* the ids of the candidates the running cycle has taken up so far, in the order of the
\* skip and call events
TakenUp ==
    LET IsTakeUp(e) == e.type \in {"skip", "call"}
        taken == SelectSeq(events, IsTakeUp)
    IN  [i \in DOMAIN taken |-> taken[i].id]

\* the ids the running cycle has asked the carrier about, in the order of the calls
CallOrder ==
    LET IsCall(e) == e.type = "call"
        calls == SelectSeq(events, IsCall)
    IN  [i \in DOMAIN calls |-> calls[i].id]

\* a is b with some of its elements left out
IsSubsequence(a, b) ==
    \E f \in [DOMAIN a -> DOMAIN b] :
        /\ \A i \in DOMAIN a : a[i] = b[f[i]]
        /\ \A i, j \in DOMAIN a : i < j => f[i] < f[j]

\* C24: a detailed cycle takes up its candidates one after another in the order the
\* Ledger returned them: the carrier calls and the entries of the in-transit,
\* newly-delivered and attention-needed lists follow the candidate order, and a carrier
\* call is made only when the Ledger write of the candidate before it is over.
C24_SequentialInLedgerOrder ==
    InDetailedCycle =>
        /\ Len(TakenUp) <= Len(shipments)
        /\ TakenUp = SubSeq(Ids(shipments), 1, Len(TakenUp))
        /\ IsSubsequence(CallOrder, Ids(shipments))
        /\ IsSubsequence(Ids(in_transit_shipments), Ids(shipments))
        /\ IsSubsequence(Ids(newly_delivered_shipments), Ids(shipments))
        /\ IsSubsequence(Ids(shipments_with_next_steps), Ids(in_transit_shipments))
        /\ \A i \in DOMAIN events :
               (events[i].type = "call" /\ i > 1) => events[i - 1].type \in {"skip", "write", "mark"}
        /\ \A i \in DOMAIN events :
               (events[i].type = "call" /\ i < Len(events)) =>
                   (events[i + 1].type = "write" /\ events[i + 1].id = events[i].id)

\* two different candidates, both asked about and both in transit, listed in Ledger order
C24_Witness ==
    /\ DetailedCompleted
    /\ Len(shipments) = 2
    /\ shipments[1].tracking_number # shipments[2].tracking_number
    /\ CallOrder = Ids(shipments)
    /\ Ids(in_transit_shipments) = Ids(shipments)

(***************************************************************************)
(* Properties of the text of the detailed notification.                    *)
(***************************************************************************)
\* the ids of the lines of one kind, in the order of the message
LineIds(kind) ==
    LET OfKind(l) == l.kind = kind
        found == SelectSeq(message, OfKind)
    IN  [i \in DOMAIN found |-> found[i].id]

\* the numbers stated by the remainder lines of the message
RemainderCounts ==
    LET IsMore(l) == l.kind = "more"
        found == SelectSeq(message, IsMore)
    IN  [i \in DOMAIN found |-> found[i].count]

\* C25: the text of the detailed notification lists every newly-delivered shipment and
\* the first 10 in-transit shipments at most, in list order; with n > 10 in-transit
\* shipments it states that n - 10 more exist, and with n <= 10 it lists them all and
\* has no remainder line.
C25_DisplayCap ==
    pc = "formatted" =>
        LET in_transit == webhook_data.in_transit_shipments
            n == Len(in_transit)
        IN  /\ LineIds("delivered") = Ids(webhook_data.newly_delivered_shipments)
            /\ n <= 10 => (LineIds("shipment") = Ids(in_transit) /\ RemainderCounts = <<>>)
            /\ n > 10 => /\ LineIds("shipment") = Ids(SubSeq(in_transit, 1, 10))
                         /\ RemainderCounts = <<n - 10>>
            /\ LineIds("status") = LineIds("shipment")

\* 12 in-transit shipments and 2 newly delivered: 10 listed, "2 more", both delivered listed
C25_Witness ==
    /\ pc = "formatted"
    /\ Len(webhook_data.in_transit_shipments) = 12
    /\ Len(LineIds("shipment")) = 10
    /\ RemainderCounts = <<2>>
    /\ Len(LineIds("delivered")) = 2

(***************************************************************************)
(* Properties of the Ledger against the delivered set.                     *)
(***************************************************************************)
\* C26: every id a detailed cycle has added to the delivered set is flagged delivered in
\* the Ledger, also when the delivered write for it failed.
C26_DeliveredSetFlaggedInLedger ==
    \A t \in last_delivered_shipments \ baseline : t \in LedgerDeliveredIds


(***************************************************************************)
(* Properties of a detailed cycle whose carrier lookups fail.              *)
(***************************************************************************)
\* the lookup failed, or it succeeded without a status record for the shipment
LookupFailed(resp) == IsFailure(resp) \/ ~HasStatus(resp)

\* the description of a lookup that failed or found no data
ExpectedFailureText(resp) ==
    IF IsFailure(resp) THEN FailureDescription(resp) ELSE STR_No_data

FailureTexts == {ExpectedFailureText(resp) : resp \in FailedLookups}

\* C27: a candidate whose carrier lookup fails or returns no data ("Not Found", "Auth
\* Error", "Rate Limited", "Error <code>", "No data") is handled as in transit in that
\* cycle: it is appended to the in-transit list the summary counts, the write issued to
\* the Ledger carries the failure description as its status, it enters neither the
\* newly-delivered nor the attention-needed list, and it stays out of the delivered set,
\* so that the next cycle that gets it as a candidate calls the carrier for it again.
C27_FailedLookupIsInTransit ==
    /\ [][(RecordsObservation /\ LookupFailed(response)) =>
             LET t    == shipments[idx].tracking_number
                 text == ExpectedFailureText(response)
             IN  /\ observation = [raised |-> FALSE, exc |-> "", description |-> text,
                                   next_steps |-> None, is_delivered |-> FALSE]
                 /\ in_transit_shipments' =
                        Append(in_transit_shipments,
                               [tracking_number |-> t, status |-> text,
                                next_steps |-> None, is_delivered |-> FALSE])
                 /\ newly_delivered_shipments' = newly_delivered_shipments
                 /\ shipments_with_next_steps' = shipments_with_next_steps
                 /\ \E applied \in BOOLEAN :
                        /\ events' = Append(events,
                                            WriteEv(t, FALSE, applied, STR_Status_ \o text))
                        /\ applied =>
                               \A i \in DOMAIN pickings : pickings[i].ref = t =>
                                   pickings'[i].last_status = STR_Status_ \o text
                 /\ last_delivered_shipments' = last_delivered_shipments
                 /\ t \notin last_delivered_shipments']_vars
    /\ [][(exited = "no" /\ pc = "loop" /\ idx <= Len(shipments) /\ idx' = idx + 1
           /\ shipments[idx].tracking_number \notin last_delivered_shipments) =>
             /\ pc' = "resolved"
             /\ events'[Len(events')].type = "call"
             /\ events'[Len(events')].id = shipments[idx].tracking_number]_vars
    /\ [](DetailedCompleted =>
             /\ webhook_data.summary.in_transit = Len(in_transit_shipments)
             /\ webhook_data.in_transit_shipments = in_transit_shipments
             /\ \A i \in DOMAIN newly_delivered_shipments :
                    newly_delivered_shipments[i].status \notin FailureTexts
             /\ \A i \in DOMAIN shipments_with_next_steps :
                    shipments_with_next_steps[i].status \notin FailureTexts)

\* the shipment whose lookup was answered 404 in an earlier cycle, with "Status: Not
\* Found" written to its picking, is looked up again, and this time answered 429
C27_Witness ==
    /\ InDetailedCycle
    /\ pc = "resolved"
    /\ shipments[idx].tracking_number = "T1"
    /\ pickings[1].last_status = STR_Status_ \o STR_Not_Found
    /\ ~pickings[1].delivered
    /\ response.status_code = 429
    /\ observation.description = STR_Rate_Limited
    /\ events[Len(events)].type = "call"


(***************************************************************************)
(* Properties of the count a simple cycle compares with.                   *)
(***************************************************************************)
\* a simple cycle that connected to the Ledger runs in this step
SimpleReadStep ==
    /\ exited = "no" /\ pc = "idle"
    /\ SimpleCycleStep
    /\ connected' = "yes"

C28_WitnessFirstNotifies ==
    /\ SimpleCompleted
    /\ simple_last.prev = NoReading
    /\ simple_last.count[1] >= 1
    /\ SimpleNotified
    /\ baseline # {}


(***************************************************************************)
(* Properties of the result of a detailed cycle.                           *)
(***************************************************************************)
SummariesSent ==
    Cardinality({i \in DOMAIN events : events[i] = NotifyEv("summary")})

\* the event is the handling of a candidate: its skip, carrier call, write or mark
IsCandidateEvent(e) == e.type \in {"skip", "call", "write", "mark"}

\* the detailed cycle ended before its loop: no connection, or no candidate returned
DetailedEndedEarly ==
    /\ pc = "done"
    /\ cycle.kind = "detailed"
    /\ cycle.outcome \in {"no_connection", "no_shipments"}

\* C29: a detailed cycle that runs to its end sends the summary exactly once when the
\* Ledger returned at least one candidate, also when every candidate was skipped as
\* already delivered (in_transit 0, newly_delivered 0); it sends nothing at all when the
\* Ledger returned no candidate; the summary is sent after every candidate of the cycle
\* has been handled, never before.
C29_SummaryOncePerNonEmptyCycle ==
    /\ [](DetailedCompleted =>
             /\ Len(shipments) >= 1
             /\ SummariesSent = 1
             /\ CountEv("skip") + CountEv("call") = Len(shipments)
             /\ \A i, j \in DOMAIN events :
                    (events[i] = NotifyEv("summary") /\ IsCandidateEvent(events[j])) => j < i)
    /\ [](DetailedEndedEarly =>
             /\ events = <<>>
             /\ webhook_data = NoWebhook
             /\ (cycle.outcome = "no_shipments" => shipments = <<>>))
    /\ []((InDetailedCycle /\ ~DetailedCompleted) => CountEv("notify") = 0)
    /\ [][(exited = "no" /\ exited' = "no" /\ pc = "loop" /\ pc' # "loop") =>
             IF idx <= Len(shipments)
             THEN pc' = "resolved" /\ events'[Len(events')].type = "call"
             ELSE /\ pc' = "done"
                  /\ cycle'.outcome = "completed"
                  /\ \E i \in DOMAIN events' : events'[i] = NotifyEv("summary")]_vars

\* every candidate of the cycle was skipped as already delivered and the summary was
\* sent after the skips, with in_transit 0 and newly_delivered 0
C29_Witness ==
    /\ DetailedCompleted
    /\ Len(shipments) = 2
    /\ CountEv("skip") = 2
    /\ events = <<SkipEv(shipments[1].tracking_number), SkipEv(shipments[2].tracking_number),
                  NotifyEv("summary")>>
    /\ webhook_data.summary = [total_shipments |-> 2, in_transit |-> 0, newly_delivered |-> 0]

\* the Ledger returned no candidate: the cycle is over and nothing was sent
C29_WitnessNoCandidates ==
    /\ pc = "done"
    /\ cycle = [kind |-> "detailed", outcome |-> "no_shipments"]
    /\ connected = "yes"
    /\ events = <<>>


\* the writes of the cycle issued with the given delivered flag
WritesIssued(delivered) ==
    Cardinality({i \in DOMAIN events :
                    events[i].type = "write" /\ events[i].delivered = delivered})

\* C30: when a detailed cycle reaches its result every candidate occurrence the Ledger
\* returned is in exactly one of three classes: skipped as already delivered, in
\* transit, newly delivered. The in-transit list and the newly-delivered list share no
\* entry, and summary.total = skipped + summary.in_transit + summary.newly_delivered; at
\* every point of the loop the candidates handled so far are split the same way.
C30_Partition ==
    /\ DetailedCompleted =>
          /\ Len(shipments) =
                 CountEv("skip") + Len(in_transit_shipments) + Len(newly_delivered_shipments)
          /\ webhook_data.summary.total_shipments =
                 CountEv("skip") + webhook_data.summary.in_transit
                 + webhook_data.summary.newly_delivered
          /\ CountEv("call") = WritesIssued(TRUE) + WritesIssued(FALSE)
          /\ WritesIssued(FALSE) = webhook_data.summary.in_transit
          /\ WritesIssued(TRUE) = webhook_data.summary.newly_delivered
    /\ (InDetailedCycle /\ pc = "loop") =>
          idx - 1 = CountEv("skip") + Len(in_transit_shipments) + Len(newly_delivered_shipments)
    /\ InDetailedCycle =>
          /\ \A i \in DOMAIN in_transit_shipments : ~in_transit_shipments[i].is_delivered
          /\ \A j \in DOMAIN newly_delivered_shipments : newly_delivered_shipments[j].is_delivered
          /\ \A i \in DOMAIN in_transit_shipments, j \in DOMAIN newly_delivered_shipments :
                 in_transit_shipments[i] # newly_delivered_shipments[j]

\* two pickings with the same tracking number: the first occurrence was resolved in
\* transit and the second delivered, so the id is in both lists, once per occurrence,
\* and total 2 = 0 skipped + 1 in transit + 1 newly delivered
C30_Witness ==
    /\ DetailedCompleted
    /\ CountEv("skip") = 0
    /\ webhook_data.summary = [total_shipments |-> 2, in_transit |-> 1, newly_delivered |-> 1]
    /\ in_transit_shipments[1].tracking_number = newly_delivered_shipments[1].tracking_number
    /\ in_transit_shipments[1] # newly_delivered_shipments[1]

\* one candidate was skipped and the other is in transit: total 2 = 1 + 1 + 0
C30_WitnessSkipped ==
    /\ DetailedCompleted
    /\ CountEv("skip") = 1
    /\ webhook_data.summary = [total_shipments |-> 2, in_transit |-> 1, newly_delivered |-> 0]

====
